---- MODULE Spec2Model ----
(***************************************************************************)
(* Outline extraction from converted office-document HTML                  *)
(* (src/extract_outline.py).                                               *)
(*                                                                         *)
(* A document is the tree BeautifulSoup builds: a sequence of element      *)
(* nodes in document (pre-order) order, each with its tag, its parent and  *)
(* the text it holds before its first child element.  A text is a sequence *)
(* of one-character strings.  The two CJK label characters of the caption  *)
(* pattern are written "U+56FE" and "U+8868".                              *)
(***************************************************************************)
EXTENDS Integers, Sequences, FiniteSets, TLC

VARIABLES
    entry,              \* "call": extract_outline called directly; "main": the script is run
    fileOk,             \* whether the input HTML file can be opened for reading
    doc,                \* the parsed content of the input file (<<>> when it cannot be read)
    stem,               \* the stem of the input_file argument
    max_level,          \* the max_level argument
    pass,               \* main: number of the extract_outline call in progress (0 before the first)
    output_file,        \* the output_file argument of the call in progress ("None" or a file name)
    format,             \* the format argument of the call in progress
    pc,                 \* control location
    gone,               \* soup: the nodes decompose() has destroyed
    work,               \* the rest of the list the current for loop iterates
    stats,              \* clean_html_for_outline: stats
    outline,            \* extract_outline: outline
    processed_numbers,  \* extract_outline: processed_numbers
    console,            \* what has been printed
    files,              \* the output files written: name -> content
    mainOutline,        \* main: outline (the first call's return value)
    removedBy,          \* history: node -> the rule whose decompose() detached it ("none" if none did)
    redundant,          \* history: decompose() calls on nodes that were already destroyed
    origin,             \* history: the node each outline entry was read from
    results             \* history: the value each finished call returned

vars == <<entry, fileOk, doc, stem, max_level, pass, output_file, format, pc, gone, work,
          stats, outline, processed_numbers, console, files, mainOutline,
          removedBy, redundant, origin, results>>

(***************************************************************************)
(* Bounds and program constants                                            *)
(***************************************************************************)
\* Largest number of element nodes of a document given to a direct call.
MaxNodes == 2

\* Largest number of element nodes of a document given to the script.
MaxMainNodes == 2

\* len(text) > 200
LongLimit == 200

\* --max-level choices=[1, 2, 3]
MaxLevels == {1, 2, 3}

(***************************************************************************)
(* Strings                                                                 *)
(***************************************************************************)
Rep(c, n) == [i \in 1..n |-> c]

\* s followed by as many "x" as bring it to length n
Pad(s, n) == s \o Rep("x", n - Len(s))

\* \d
IsDigit(c) == c \in {"0", "1", "2", "3", "4", "5", "6", "7", "8", "9"}

\* \s
IsSpace(c) == c \in {" ", "\n", "\t"}

RECURSIVE SkipSpaces(_, _)
\* the first index >= i of s that holds no whitespace (Len(s) + 1 if none)
SkipSpaces(s, i) ==
    IF i <= Len(s) /\ IsSpace(s[i]) THEN SkipSpaces(s, i + 1) ELSE i

RECURSIVE SkipSpacesBack(_, _)
\* the last index <= j of s that holds no whitespace (0 if none)
SkipSpacesBack(s, j) ==
    IF j >= 1 /\ IsSpace(s[j]) THEN SkipSpacesBack(s, j - 1) ELSE j

\* str.strip()
Strip(s) == SubSeq(s, SkipSpaces(s, 1), SkipSpacesBack(s, Len(s)))

RECURSIVE SkipDigitsBack(_, _)
\* the last index <= j of s that holds no digit (0 if none)
SkipDigitsBack(s, j) ==
    IF j >= 1 /\ IsDigit(s[j]) THEN SkipDigitsBack(s, j - 1) ELSE j

RECURSIVE FirstSpace(_, _)
\* the first index >= i of s that holds whitespace (Len(s) + 1 if none)
FirstSpace(s, i) ==
    IF i <= Len(s) /\ ~IsSpace(s[i]) THEN FirstSpace(s, i + 1) ELSE i

HasPrefix(s, p) == Len(s) >= Len(p) /\ SubSeq(s, 1, Len(p)) = p

\* str.count('.')
CountDots(s) == Cardinality({i \in 1..Len(s) : s[i] = "."})

(***************************************************************************)
(* The three patterns                                                      *)
(***************************************************************************)
CaptionLabels ==
    {<<"U+56FE">>, <<"U+8868">>, <<"F", "i", "g">>, <<"T", "a", "b", "l", "e">>}

\* re.match(r'^(图|表|Fig|Table)\s*[\d\.]+', text)
IsCaption(text) ==
    \E lab \in CaptionLabels :
        /\ HasPrefix(text, lab)
        /\ LET k == SkipSpaces(text, Len(lab) + 1)
           IN  k <= Len(text) /\ (IsDigit(text[k]) \/ text[k] = ".")

\* re.match(r'^[\d\s\.\-\,\(\)\[\]]+$', text), text stripped
IsNumericOnly(text) ==
    /\ Len(text) > 0
    /\ \A i \in 1..Len(text) :
          \/ IsDigit(text[i])
          \/ IsSpace(text[i])
          \/ text[i] \in {".", "-", ",", "(", ")", "[", "]"}

\* the dotted numeral of heading_pattern, matching the whole of t
IsNumeral(t) ==
    /\ Len(t) > 0
    /\ IsDigit(t[1])
    /\ IsDigit(t[Len(t)])
    /\ \A i \in 1..Len(t) : IsDigit(t[i]) \/ t[i] = "."
    /\ \A i \in 1..(Len(t) - 1) : ~(t[i] = "." /\ t[i + 1] = ".")

(***************************************************************************)
(* heading_pattern (line 101) on a stripped text: a dotted numeral, a run  *)
(* of whitespace, a lazy title and an optional closing run of whitespace   *)
(* and digits.  Group 1 has no whitespace and must be followed by          *)
(* whitespace, so it is the text up to its first whitespace.  Group 2      *)
(* starts after the whitespace run and is the shortest stretch, free of    *)
(* line breaks, after which only a run of whitespace and then a run of     *)
(* digits, or nothing, is left.                                            *)
(***************************************************************************)
NumberEnd(text) == FirstSpace(text, 1) - 1

TitleStart(text) == SkipSpaces(text, NumberEnd(text) + 1)

\* the index of the last character of group 2
TitleEnd(text) ==
    LET n == Len(text)
        d == SkipDigitsBack(text, n)       \* text[d+1..n] is the closing run of digits
        w == SkipSpacesBack(text, d)       \* text[w+1..d] is the whitespace before it
    IN  IF d < n /\ w < d /\ w >= TitleStart(text) THEN w ELSE n

HeadingMatches(text) ==
    /\ NumberEnd(text) >= 1
    /\ NumberEnd(text) < Len(text)
    /\ IsNumeral(SubSeq(text, 1, NumberEnd(text)))
    /\ TitleStart(text) <= Len(text)
    /\ \A i \in TitleStart(text)..TitleEnd(text) : text[i] # "\n"

\* match.group(1)
Group1(text) == SubSeq(text, 1, NumberEnd(text))

\* match.group(2)
Group2(text) == SubSeq(text, TitleStart(text), TitleEnd(text))

(***************************************************************************)
(* The document tree                                                       *)
(***************************************************************************)
RECURSIVE IsUnder(_, _, _)
\* node a is a proper ancestor of node n in document d
IsUnder(d, n, a) ==
    /\ d[n].parent # 0
    /\ (d[n].parent = a \/ IsUnder(d, d[n].parent, a))

\* node n and its descendants
Subtree(d, n) == {n} \cup {k \in (n + 1)..Len(d) : IsUnder(d, k, n)}

\* elements that hold no child elements: html.parser closes an img at once and
\* reads what a script holds as one string
LeafTags == {"img", "script"}

\* the elements a further element can be put into: the last one and its ancestors
OpenNodes(d) ==
    {0} \cup {a \in 1..Len(d) : /\ a = Len(d) \/ IsUnder(d, Len(d), a)
                                /\ d[a].tag \notin LeafTags}

Extensions(kinds, d) ==
    {Append(d, [tag |-> k.tag, text |-> k.text, parent |-> p]) :
        k \in kinds, p \in OpenNodes(d)}

RECURSIVE DocsOfSize(_, _)
DocsOfSize(kinds, n) ==
    IF n = 0 THEN {<<>>}
    ELSE UNION {Extensions(kinds, d) : d \in DocsOfSize(kinds, n - 1)}

\* the documents of 1..n elements
Docs(kinds, n) == UNION {DocsOfSize(kinds, k) : k \in 1..n}

RECURSIVE TextFrom(_, _, _)
\* the texts of the nodes k..Len(d) that are in the set keep, in document order
TextFrom(d, keep, k) ==
    IF k > Len(d) THEN <<>>
    ELSE (IF k \in keep THEN d[k].text ELSE <<>>) \o TextFrom(d, keep, k + 1)

\* p.get_text(): the strings under p that are still in the tree; a destroyed
\* element has lost its contents
GetText(n) ==
    IF n \in gone THEN <<>> ELSE TextFrom(doc, Subtree(doc, n) \ gone, n)

RECURSIVE Select(_, _, _)
Select(d, keep, k) ==
    IF k > Len(d) THEN <<>>
    ELSE (IF k \in keep THEN <<k>> ELSE <<>>) \o Select(d, keep, k + 1)

\* soup.find_all(tags): the elements of the tree with one of the tags, in document order
FindAll(tags) ==
    Select(doc, {n \in 1..Len(doc) : n \notin gone /\ doc[n].tag \in tags}, 1)

BlockTags == {"p", "div", "h1", "h2", "h3", "h4", "h5", "h6"}

(***************************************************************************)
(* Input texts and documents                                               *)
(***************************************************************************)
TxtEmpty == <<>>
TxtIntro == <<"1", " ", "A", "b">>
TxtIntroPage == <<"1", " ", "C", "d", "\n", "7">>
TxtSub == <<"2", ".", "1", " ", "E", "f">>
TxtSubSub == <<"1", ".", "1", ".", "1", " ", "G", "h">>
TxtDeep == <<"1", ".", "1", ".", "1", ".", "1", " ", "I", "j">>
TxtDigits == <<"1", " ", "2", "3">>
TxtShort == <<"3", " ", "A">>
TxtCaption == <<"F", "i", "g", "1", " ", "A", "b">>
TxtAtLimit == Pad(<<"1", ".", "2", " ">>, LongLimit)
TxtOverLimit == Pad(<<"1", ".", "2", " ">>, LongLimit + 1)
TxtLongCaption == Pad(<<"F", "i", "g", "1", " ">>, LongLimit + 1)

Kind(tag, text) == [tag |-> tag, text |-> text]

Kinds ==
    {Kind("p", t) : t \in {TxtIntro, TxtIntroPage, TxtSub, TxtSubSub, TxtDigits, TxtShort,
                           TxtCaption, TxtAtLimit, TxtOverLimit, TxtLongCaption}}
    \cup {Kind("h1", TxtDeep), Kind("div", TxtEmpty), Kind("table", TxtEmpty),
          Kind("img", TxtEmpty), Kind("script", TxtEmpty), Kind("svg", TxtEmpty)}

MainKinds ==
    {Kind("p", TxtIntro), Kind("p", TxtIntroPage), Kind("p", TxtSub), Kind("p", TxtCaption),
     Kind("div", TxtAtLimit), Kind("table", TxtEmpty), Kind("img", TxtEmpty)}

\* the stem of the three output names the script writes (lines 219-225)
FixedStem == "U+9644U+4EF61"

Stems == {FixedStem, "report"}

FileName(st, ext) == <<st, ext>>

NoFile == FileName("", "")

NoFiles == [f \in {} |-> <<>>]

ZeroStats ==
    [tables_removed |-> 0, images_removed |-> 0, scripts_removed |-> 0,
     captions_removed |-> 0, long_paragraphs_removed |-> 0]

NoRemovals == [n \in 1..Len(doc) |-> "none"]

Init ==
    /\ entry \in {"call", "main"}
    /\ fileOk \in BOOLEAN
    /\ doc \in (IF ~fileOk THEN {<<>>}
                ELSE IF entry = "call" THEN Docs(Kinds, MaxNodes)
                ELSE Docs(MainKinds, MaxMainNodes))
    /\ stem \in (IF entry = "call" THEN {FixedStem} ELSE Stems)
    /\ max_level \in MaxLevels
    /\ pass = 0
    /\ output_file = NoFile
    /\ format = "txt"
    /\ pc = (IF entry = "call" THEN "open" ELSE "main")
    /\ gone = {}
    /\ work = <<>>
    /\ stats = ZeroStats
    /\ outline = <<>>
    /\ processed_numbers = {}
    /\ console = <<>>
    /\ files = NoFiles
    /\ mainOutline = <<>>
    /\ removedBy = <<>>
    /\ redundant = 0
    /\ origin = <<>>
    /\ results = <<>>

(***************************************************************************)
(* clean_html_for_outline (lines 10-65)                                    *)
(***************************************************************************)
\* tag.decompose(): the element and everything under it leave the tree
Destroyed(n) == gone \cup Subtree(doc, n)

Decompose(n, rule) ==
    /\ gone' = Destroyed(n)
    /\ removedBy' = IF n \in gone THEN removedBy ELSE [removedBy EXCEPT ![n] = rule]
    /\ redundant' = IF n \in gone THEN redundant + 1 ELSE redundant

\* variant: no table is found
TablesMissed == <<>>

\* soup.find_all('table')
TablesFound == FindAll({"table"})

\* variant: the call goes on although the file cannot be opened
OpensAnyway == TRUE

\* with open(html_file, "r") ... BeautifulSoup(content, 'html.parser') (lines 79-83)
CanOpen == fileOk

Open ==
    /\ pc = "open"
    /\ IF CanOpen
       THEN /\ pc' = "clean"
            /\ gone' = {}
            /\ removedBy' = NoRemovals
            /\ redundant' = 0
       ELSE /\ pc' = "raised"
            /\ UNCHANGED <<gone, removedBy, redundant>>
    /\ UNCHANGED <<entry, fileOk, doc, stem, max_level, pass, output_file, format, work,
                   stats, outline, processed_numbers, console, files, mainOutline,
                   origin, results>>

\* lines 20-30
FindTables ==
    /\ pc = "clean"
    /\ work' = TablesFound
    /\ stats' = [ZeroStats EXCEPT !.tables_removed = Len(TablesFound)]
    /\ pc' = "tables"
    /\ UNCHANGED <<entry, fileOk, doc, stem, max_level, pass, output_file, format, gone,
                   outline, processed_numbers, console, files, mainOutline,
                   removedBy, redundant, origin, results>>

\* one round of the loops of lines 31-32, 37-38, 43-44 and 47-48
DecomposeNext ==
    /\ pc \in {"tables", "images", "scripts", "noncontent"}
    /\ work # <<>>
    /\ Decompose(Head(work), pc)
    /\ work' = Tail(work)
    /\ UNCHANGED <<entry, fileOk, doc, stem, max_level, pass, output_file, format, pc,
                   stats, outline, processed_numbers, console, files, mainOutline,
                   origin, results>>

\* lines 35-36
FindImages ==
    /\ pc = "tables"
    /\ work = <<>>
    /\ work' = FindAll({"img"})
    /\ stats' = [stats EXCEPT !.images_removed = Len(FindAll({"img"}))]
    /\ pc' = "images"
    /\ UNCHANGED <<entry, fileOk, doc, stem, max_level, pass, output_file, format, gone,
                   outline, processed_numbers, console, files, mainOutline,
                   removedBy, redundant, origin, results>>

\* lines 41-42
FindScripts ==
    /\ pc = "images"
    /\ work = <<>>
    /\ work' = FindAll({"script", "style"})
    /\ stats' = [stats EXCEPT !.scripts_removed = Len(FindAll({"script", "style"}))]
    /\ pc' = "scripts"
    /\ UNCHANGED <<entry, fileOk, doc, stem, max_level, pass, output_file, format, gone,
                   outline, processed_numbers, console, files, mainOutline,
                   removedBy, redundant, origin, results>>

\* line 47
FindNonContent ==
    /\ pc = "scripts"
    /\ work = <<>>
    /\ work' = FindAll({"head", "meta", "link", "svg", "canvas"})
    /\ pc' = "noncontent"
    /\ UNCHANGED <<entry, fileOk, doc, stem, max_level, pass, output_file, format, gone,
                   stats, outline, processed_numbers, console, files, mainOutline,
                   removedBy, redundant, origin, results>>

\* line 51
FindParas ==
    /\ pc = "noncontent"
    /\ work = <<>>
    /\ work' = FindAll({"p", "div"})
    /\ pc' = "paras"
    /\ UNCHANGED <<entry, fileOk, doc, stem, max_level, pass, output_file, format, gone,
                   stats, outline, processed_numbers, console, files, mainOutline,
                   removedBy, redundant, origin, results>>

\* variant: the limit itself counts as too long
IsLongAtLimit(text) == Len(text) >= LongLimit

\* len(text) > 200 (line 60)
IsLong(text) == Len(text) > LongLimit

\* one round of the loop of lines 51-63
InspectPara ==
    /\ pc = "paras"
    /\ work # <<>>
    /\ LET p == Head(work)
           text == Strip(GetText(p))
       IN  IF IsCaption(text)
           THEN /\ stats' = [stats EXCEPT !.captions_removed = @ + 1]
                /\ Decompose(p, "captions")
           ELSE IF IsLong(text)
           THEN /\ stats' = [stats EXCEPT !.long_paragraphs_removed = @ + 1]
                /\ Decompose(p, "long")
           ELSE UNCHANGED <<stats, gone, removedBy, redundant>>
    /\ work' = Tail(work)
    /\ UNCHANGED <<entry, fileOk, doc, stem, max_level, pass, output_file, format, pc,
                   outline, processed_numbers, console, files, mainOutline,
                   origin, results>>

(***************************************************************************)
(* extract_outline (lines 68-164)                                          *)
(***************************************************************************)
Printed(kind, data) == [kind |-> kind, data |-> data]

\* variant: the numbers seen by the call before are kept
StaleNumbers == processed_numbers

\* processed_numbers = set() (line 104)
FreshNumbers == {}

\* lines 65 and 86-104: the statistics are printed, the blocks are listed
CleanDone ==
    /\ pc = "paras"
    /\ work = <<>>
    /\ console' = Append(console, Printed("stats", stats))
    /\ work' = FindAll(BlockTags)
    /\ outline' = <<>>
    /\ processed_numbers' = FreshNumbers
    /\ origin' = <<>>
    /\ pc' = "match"
    /\ UNCHANGED <<entry, fileOk, doc, stem, max_level, pass, output_file, format, gone,
                   stats, files, mainOutline, removedBy, redundant, results>>

\* lines 110-129: the text is a heading with a title of two characters or more
IsCandidate(text) ==
    /\ text # <<>>
    /\ ~IsNumericOnly(text)
    /\ HeadingMatches(text)
    /\ Len(Strip(Group2(text))) >= 2

\* level = number.count('.') + 1 (line 136)
LevelOf(number) == CountDots(number) + 1

\* lines 124-125, 136 and 140-145
EntryOf(text) ==
    [number |-> Group1(text), title |-> Strip(Group2(text)),
     level |-> LevelOf(Group1(text)), full_text |-> text]

\* variant: the level is not looked at
KeepsAnyLevel(e, seen, maxl) == e.number \notin seen

\* variant: a number seen before is kept again
KeepsRepeats(e, seen, maxl) == e.level <= maxl

\* variant: the deepest level asked for is left out
KeepsBelowLevel(e, seen, maxl) == e.number \notin seen /\ e.level < maxl

\* lines 132 and 139
Keeps(e, seen, maxl) == e.number \notin seen /\ e.level <= maxl

\* variant: the entry is put at the head of the list
ListPrepend(o, e) == <<e>> \o o

\* outline.append(...) (line 140)
ListAppend(o, e) == Append(o, e)

\* one round of the loop of lines 106-146
MatchBlock ==
    /\ pc = "match"
    /\ work # <<>>
    /\ LET p == Head(work)
           text == Strip(GetText(p))
       IN  IF IsCandidate(text) /\ Keeps(EntryOf(text), processed_numbers, max_level)
           THEN /\ outline' = ListAppend(outline, EntryOf(text))
                /\ processed_numbers' = processed_numbers \cup {EntryOf(text).number}
                /\ origin' = Append(origin, p)
           ELSE UNCHANGED <<outline, processed_numbers, origin>>
    /\ work' = Tail(work)
    /\ UNCHANGED <<entry, fileOk, doc, stem, max_level, pass, output_file, format, pc, gone,
                   stats, console, files, mainOutline, removedBy, redundant, results>>

RECURSIVE Join(_)
\* "\n".join(lines)
Join(lines) ==
    IF lines = <<>> THEN <<>>
    ELSE IF Len(lines) = 1 THEN lines[1]
    ELSE lines[1] \o <<"\n">> \o Join(Tail(lines))

\* generate_text_outline (lines 167-175)
generate_text_outline(o) ==
    Join([i \in 1..Len(o) |->
            Rep(" ", 2 * (o[i].level - 1)) \o o[i].number \o <<" ">> \o o[i].title])

RECURSIVE MarkdownLines(_)
MarkdownLines(o) ==
    IF o = <<>> THEN <<>>
    ELSE << Rep("#", o[1].level + 1) \o <<" ">> \o o[1].number \o <<" ">> \o o[1].title,
            <<>> >> \o MarkdownLines(Tail(o))

\* generate_markdown_outline (lines 178-190); the heading line is "# " and four CJK characters
generate_markdown_outline(o) ==
    Join(<< <<"#", " ", "U+6587", "U+6863", "U+5927", "U+7EB2">>, <<>> >> \o MarkdownLines(o))

\* json.dumps(outline, ...) (line 150): a list of objects, each its keys and values in order
json_dumps(o) ==
    [i \in 1..Len(o) |->
        << <<"number", o[i].number>>, <<"title", o[i].title>>,
           <<"level", o[i].level>>, <<"full_text", o[i].full_text>> >>]

\* lines 149-154
OutputText(fmt, o) ==
    IF fmt = "json" THEN json_dumps(o)
    ELSE IF fmt = "markdown" THEN generate_markdown_outline(o)
    ELSE generate_text_outline(o)

\* lines 149-164
Output ==
    /\ pc = "match"
    /\ work = <<>>
    /\ IF output_file # NoFile
       THEN /\ files' = (output_file :> OutputText(format, outline)) @@ files
            /\ console' = Append(console, Printed("saved", output_file))
       ELSE /\ console' = Append(console, Printed("outline", OutputText(format, outline)))
            /\ UNCHANGED files
    /\ results' = Append(results, outline)
    /\ pc' = "returned"
    /\ UNCHANGED <<entry, fileOk, doc, stem, max_level, pass, output_file, format, gone, work,
                   stats, outline, processed_numbers, mainOutline,
                   removedBy, redundant, origin>>

(***************************************************************************)
(* The script (lines 193-235)                                              *)
(***************************************************************************)
\* the output_file and format of the four calls (lines 216-225)
PassFile(k) ==
    IF k = 2 THEN FileName(FixedStem, "_outline.txt")
    ELSE IF k = 3 THEN FileName(FixedStem, "_outline.md")
    ELSE IF k = 4 THEN FileName(FixedStem, "_outline.json")
    ELSE NoFile

PassFormat(k) == IF k = 3 THEN "markdown" ELSE IF k = 4 THEN "json" ELSE "txt"

\* number of extract_outline calls the script makes
Passes == 4

\* lines 208-216
MainBegin ==
    /\ pc = "main"
    /\ console' = Append(console, Printed("banner", max_level))
    /\ pass' = 1
    /\ output_file' = PassFile(1)
    /\ format' = PassFormat(1)
    /\ pc' = "open"
    /\ UNCHANGED <<entry, fileOk, doc, stem, max_level, gone, work, stats, outline,
                   processed_numbers, files, mainOutline, removedBy, redundant,
                   origin, results>>

\* lines 216-225: a call has returned and the next one is made
MainNextPass ==
    /\ pc = "returned"
    /\ entry = "main"
    /\ pass < Passes
    /\ mainOutline' = IF pass = 1 THEN outline ELSE mainOutline
    /\ pass' = pass + 1
    /\ output_file' = PassFile(pass + 1)
    /\ format' = PassFormat(pass + 1)
    /\ pc' = "open"
    /\ UNCHANGED <<entry, fileOk, doc, stem, max_level, gone, work, stats, outline,
                   processed_numbers, console, files, removedBy, redundant,
                   origin, results>>

\* lines 227-235
MainSummary ==
    /\ pc = "returned"
    /\ entry = "main"
    /\ pass = Passes
    /\ console' = Append(console, Printed("summary", Len(mainOutline)))
    /\ pc' = "exit"
    /\ UNCHANGED <<entry, fileOk, doc, stem, max_level, pass, output_file, format, gone, work,
                   stats, outline, processed_numbers, files, mainOutline,
                   removedBy, redundant, origin, results>>

Next ==
    \/ Open
    \/ FindTables
    \/ DecomposeNext
    \/ FindImages
    \/ FindScripts
    \/ FindNonContent
    \/ FindParas
    \/ InspectPara
    \/ CleanDone
    \/ MatchBlock
    \/ Output
    \/ MainBegin
    \/ MainNextPass
    \/ MainSummary

Spec == Init /\ [][Next]_vars

(***************************************************************************)
(* Definitions the properties share                                        *)
(***************************************************************************)
Nodes == 1..Len(doc)

\* the text the matcher reads from node n once the sanitizer has run
TextOf(n) == Strip(GetText(n))

\* the call in progress is past the sanitizer and the tree no longer changes
Sanitized == pc \in {"match", "returned", "exit"}

\* the call in progress has gone through all its blocks
Finished == pc \in {"returned", "exit"} \/ (pc = "match" /\ work = <<>>)

NumbersOf(o) == {o[i].number : i \in 1..Len(o)}

StrippedTags == {"table", "img", "script", "style", "head", "meta", "link", "svg", "canvas"}

\* the nodes in or under an element with one of the tags
AreaOf(tags) == UNION {Subtree(doc, a) : a \in {n \in Nodes : doc[n].tag \in tags}}

TableArea == AreaOf({"table"})

\* the trimmed text of node n without what rules 1-4 strip from under it
CleanText(n) == Strip(TextFrom(doc, Subtree(doc, n) \ AreaOf(StrippedTags), n))

Ancestors(n) == {a \in Nodes : IsUnder(doc, n, a)}

RemovedCount(rule) == Cardinality({n \in Nodes : removedBy[n] = rule})

Triples(o) == [i \in 1..Len(o) |-> <<o[i].number, o[i].title, o[i].level>>]

\* the first index of s that holds c (Len(s) + 1 if none)
IndexOf(s, c) ==
    LET at == {k \in 1..Len(s) : s[k] = c}
    IN  IF at = {} THEN Len(s) + 1 ELSE CHOOSE k \in at : \A j \in at : k <= j

RECURSIVE SplitLines(_)
SplitLines(s) ==
    LET k == IndexOf(s, "\n")
    IN  IF k > Len(s) THEN <<s>>
        ELSE <<SubSeq(s, 1, k - 1)>> \o SplitLines(SubSeq(s, k + 1, Len(s)))

RECURSIVE Leading(_, _, _)
\* the number of c at the head of s, from index i on
Leading(s, c, i) ==
    IF i <= Len(s) /\ s[i] = c THEN 1 + Leading(s, c, i + 1) ELSE 0

\* the (number, title) of "number title"
NumberTitle(rest) ==
    LET sp == IndexOf(rest, " ")
    IN  <<SubSeq(rest, 1, sp - 1), SubSeq(rest, sp + 1, Len(rest))>>

\* the triples read back from the plain text output
ReadText(content) ==
    IF content = <<>> THEN <<>>
    ELSE LET lines == SplitLines(content)
         IN  [i \in 1..Len(lines) |->
                LET ind == Leading(lines[i], " ", 1)
                    nt == NumberTitle(SubSeq(lines[i], ind + 1, Len(lines[i])))
                IN  <<nt[1], nt[2], (ind \div 2) + 1>>]

\* the triples read back from the Markdown output: a title line, a blank line, then
\* a heading line and a blank line per entry
ReadMarkdown(content) ==
    LET lines == SplitLines(content)
    IN  [i \in 1..((Len(lines) - 2) \div 2) |->
            LET line == lines[2 * i + 1]
                marks == Leading(line, "#", 1)
                nt == NumberTitle(SubSeq(line, marks + 2, Len(line)))
            IN  <<nt[1], nt[2], marks - 1>>]

Field(obj, key) == (CHOOSE kv \in {obj[j] : j \in 1..Len(obj)} : kv[1] = key)[2]

\* the triples read back from the JSON output
ReadJson(content) ==
    [i \in 1..Len(content) |->
        <<Field(content[i], "number"), Field(content[i], "title"), Field(content[i], "level")>>]

PrintedOutlines == SelectSeq(console, LAMBDA c : c.kind = "outline")

(***************************************************************************)
(* C1: every outline entry, at every step of the accumulation loop, has    *)
(* level = number of dots in its numeral path + 1 and 1 <= level <=        *)
(* max_level; no candidate deeper than max_level is in the outline.        *)
(***************************************************************************)
C1_DepthBound ==
    \A i \in 1..Len(outline) :
        /\ outline[i].level = CountDots(outline[i].number) + 1
        /\ 1 <= outline[i].level
        /\ outline[i].level <= max_level

\* a call has finished with an entry kept and a deeper candidate left out
C1_Witness ==
    /\ pc = "returned"
    /\ Len(outline) >= 1
    /\ \E n \in Nodes \ gone :
          /\ doc[n].tag \in BlockTags
          /\ IsCandidate(TextOf(n))
          /\ EntryOf(TextOf(n)).level > max_level

(***************************************************************************)
(* C2: the numeral paths of the outline are pairwise distinct at every     *)
(* step, and the entry kept for a numeral path is the one read from the    *)
(* first candidate in document order that carries it.                      *)
(***************************************************************************)
C2_FirstWins ==
    /\ \A i, j \in 1..Len(outline) : i # j => outline[i].number # outline[j].number
    /\ Sanitized =>
          \A i \in 1..Len(outline) :
              /\ outline[i] = EntryOf(TextOf(origin[i]))
              /\ \A m \in Nodes \ gone :
                    (/\ m < origin[i]
                     /\ doc[m].tag \in BlockTags
                     /\ IsCandidate(TextOf(m)))
                    => EntryOf(TextOf(m)).number # outline[i].number

\* two candidates with the same numeral path and different titles; the first is kept
C2_Witness ==
    /\ pc = "returned"
    /\ \E i \in 1..Len(outline) : \E n \in Nodes \ gone :
          /\ n > origin[i]
          /\ doc[n].tag \in BlockTags
          /\ IsCandidate(TextOf(n))
          /\ EntryOf(TextOf(n)).number = outline[i].number
          /\ EntryOf(TextOf(n)).title # outline[i].title

(***************************************************************************)
(* C3: the outline is a subsequence of the candidates in document order:   *)
(* an entry that precedes another was read from a block that precedes the  *)
(* other's block, whatever the numerals.                                   *)
(***************************************************************************)
C3_DocumentOrder ==
    /\ Len(origin) = Len(outline)
    /\ \A i, j \in 1..Len(origin) : i < j => origin[i] < origin[j]
    /\ Sanitized =>
          \A i \in 1..Len(outline) :
              /\ doc[origin[i]].tag \in BlockTags
              /\ IsCandidate(TextOf(origin[i]))
              /\ outline[i] = EntryOf(TextOf(origin[i]))

\* "2.1 ..." stands before "1 ..." in the document and in the outline
C3_Witness ==
    /\ pc = "returned"
    /\ Len(outline) = 2
    /\ outline[1].number = <<"2", ".", "1">>
    /\ outline[2].number = <<"1">>

(***************************************************************************)
(* C4: text that occurs only inside a table never becomes a candidate or   *)
(* an entry: the tables are out of the tree before a block is inspected,   *)
(* no entry is read from a node inside a table and no entry's text holds   *)
(* the text of such a node.                                                *)
(***************************************************************************)
C4_TableExclusion ==
    /\ pc \in {"images", "scripts", "noncontent", "paras", "match", "returned", "exit"}
          => TableArea \subseteq gone
    /\ Sanitized =>
          \A i \in 1..Len(outline) :
              /\ origin[i] \notin TableArea
              /\ \E keep \in SUBSET (Subtree(doc, origin[i]) \ TableArea) :
                    outline[i].full_text = Strip(TextFrom(doc, keep, origin[i]))

\* a block inside a table whose text is a heading within max_level; no entry carries its numeral
C4_Witness ==
    /\ pc = "returned"
    /\ \E n \in TableArea :
          /\ doc[n].tag \in BlockTags
          /\ IsCandidate(Strip(doc[n].text))
          /\ EntryOf(Strip(doc[n].text)).level <= max_level
          /\ EntryOf(Strip(doc[n].text)).number \notin NumbersOf(outline)

(***************************************************************************)
(* C5 as stated: every paragraph whose trimmed text is longer than 200     *)
(* characters is removed by the long-paragraph rule and counted in         *)
(* long_paragraphs_removed.                                                *)
(***************************************************************************)
C5_CountedAsLong ==
    Sanitized =>
        \A n \in Nodes :
            (doc[n].tag \in {"p", "div"} /\ Len(CleanText(n)) > LongLimit)
            => removedBy[n] = "long"

(***************************************************************************)
(* C5 as amended: a paragraph whose trimmed text is longer than 200        *)
(* characters is out of the tree after the sanitizer and yields no entry;  *)
(* it is the long-paragraph rule that removed and counted it exactly when  *)
(* its text does not start with a figure/table label and no block around   *)
(* it was removed first; a paragraph of at most 200 characters is never    *)
(* removed by the long-paragraph rule.                                     *)
(***************************************************************************)
C5_LongParagraphs ==
    Sanitized =>
        /\ \A n \in Nodes \ AreaOf(StrippedTags) :
              doc[n].tag \in {"p", "div"} =>
                  /\ Len(CleanText(n)) > LongLimit =>
                        /\ n \in gone
                        /\ \A i \in 1..Len(origin) : origin[i] # n
                        /\ removedBy[n] = "long" <=>
                              /\ ~IsCaption(CleanText(n))
                              /\ \A a \in Ancestors(n) : removedBy[a] = "none"
                  /\ Len(CleanText(n)) <= LongLimit => removedBy[n] # "long"
        /\ stats.long_paragraphs_removed = RemovedCount("long")

\* a paragraph of 201 characters that starts with a valid numeral has been removed as long
C5_Witness ==
    /\ pc = "returned"
    /\ max_level = 3
    /\ \E n \in Nodes :
          /\ doc[n].tag = "p"
          /\ Len(CleanText(n)) = LongLimit + 1
          /\ IsCandidate(CleanText(n))
          /\ removedBy[n] = "long"
          /\ stats.long_paragraphs_removed >= 1
          /\ EntryOf(CleanText(n)).number \notin NumbersOf(outline)

(***************************************************************************)
(* C6: every call on the same input with the same max_level returns the    *)
(* same entries, whatever the format and whatever calls came before, and   *)
(* what the script prints and writes as text, Markdown and JSON encodes    *)
(* the same (number, title, level) triples in the same order.              *)
(***************************************************************************)
C6_SameOutlineEveryPass ==
    /\ \A i \in 1..Len(results) : results[i] = results[1]
    /\ \A i \in 1..Len(PrintedOutlines) :
          ReadText(PrintedOutlines[i].data) = Triples(results[1])
    /\ pc = "exit" =>
          /\ Len(results) = Passes
          /\ ReadText(files[PassFile(2)]) = Triples(results[1])
          /\ ReadMarkdown(files[PassFile(3)]) = Triples(results[1])
          /\ ReadJson(files[PassFile(4)]) = Triples(results[1])

\* the script has finished its four passes on a document with two entries of different levels
C6_Witness ==
    /\ pc = "exit"
    /\ Len(results) = Passes
    /\ Len(results[Passes]) = 2
    /\ results[Passes][1].level # results[Passes][2].level

(***************************************************************************)
(* C7: after the sanitizer each counter of CleanStats equals the number of *)
(* subtrees its rule detached.                                             *)
(***************************************************************************)
C7_CountersMatchDetachments ==
    Sanitized =>
        /\ stats.tables_removed = RemovedCount("tables")
        /\ stats.images_removed = RemovedCount("images")
        /\ stats.scripts_removed = RemovedCount("scripts")
        /\ stats.captions_removed = RemovedCount("captions")
        /\ stats.long_paragraphs_removed = RemovedCount("long")

(***************************************************************************)
(* C8: when the script has finished, the files written are exactly         *)
(* <stem>_outline.txt, <stem>_outline.md and <stem>_outline.json for the   *)
(* stem of the input file, in text, Markdown and JSON format.              *)
(***************************************************************************)
C8_FilesNamedAfterInput ==
    pc = "exit" =>
        /\ DOMAIN files = {FileName(stem, "_outline.txt"), FileName(stem, "_outline.md"),
                           FileName(stem, "_outline.json")}
        /\ files[FileName(stem, "_outline.txt")] = generate_text_outline(mainOutline)
        /\ files[FileName(stem, "_outline.md")] = generate_markdown_outline(mainOutline)
        /\ files[FileName(stem, "_outline.json")] = json_dumps(mainOutline)

(***************************************************************************)
(* C9: when the input file cannot be read, the call fails before anything  *)
(* is processed: no statistics and no outline are printed, no file is      *)
(* written, nothing is returned, and the script makes no further call.     *)
(***************************************************************************)
C9_NoPartialOutput ==
    ~fileOk =>
        /\ pc \in {"main", "open", "raised"}
        /\ DOMAIN files = {}
        /\ \A i \in 1..Len(console) : console[i].kind = "banner"
        /\ results = <<>>
        /\ pass <= 1

\* the script's first call has failed on an unreadable input
C9_Witness ==
    /\ ~fileOk
    /\ entry = "main"
    /\ pass = 1
    /\ pc = "raised"

(***************************************************************************)
(* C10 as stated: every block outside any table whose trimmed text is at   *)
(* most 200 characters, does not start with a figure/table label, matches  *)
(* the heading grammar with a title of two characters or more and has      *)
(* level <= max_level, has its numeral path in the outline.                *)
(***************************************************************************)
C10_EveryHeadingKept ==
    Finished =>
        \A n \in Nodes \ TableArea :
            (/\ doc[n].tag \in BlockTags
             /\ Len(CleanText(n)) <= LongLimit
             /\ ~IsCaption(CleanText(n))
             /\ HeadingMatches(CleanText(n))
             /\ Len(Strip(Group2(CleanText(n)))) >= 2
             /\ LevelOf(Group1(CleanText(n))) <= max_level)
            => Group1(CleanText(n)) \in NumbersOf(outline)

(***************************************************************************)
(* C10 as amended: every block the sanitizer leaves in the tree whose      *)
(* trimmed text, read after the sanitizer, is not made of digits,          *)
(* whitespace and . , - ( ) [ ] only, matches the heading grammar with a   *)
(* title of two characters or more and has level <= max_level, has its     *)
(* numeral path in the outline; and the sanitizer leaves a block in the    *)
(* tree unless the block or an element around it is a table, an image, a   *)
(* script or style, a non-content element, or a p or div whose text starts *)
(* with a figure/table label or is longer than 200 characters.             *)
(***************************************************************************)
C10_Completeness ==
    Finished =>
        /\ \A n \in Nodes \ gone :
              (/\ doc[n].tag \in BlockTags
               /\ IsCandidate(TextOf(n))
               /\ EntryOf(TextOf(n)).level <= max_level)
              => EntryOf(TextOf(n)).number \in NumbersOf(outline)
        /\ \A n \in gone :
              \E a \in Ancestors(n) \cup {n} :
                  \/ doc[a].tag \in StrippedTags
                  \/ /\ doc[a].tag \in {"p", "div"}
                     /\ IsCaption(CleanText(a)) \/ Len(CleanText(a)) > LongLimit

\* a heading nested in a block that stays in the tree is in the outline, read from the
\* nested block
C10_Witness ==
    /\ pc = "returned"
    /\ \E i \in 1..Len(outline) :
          /\ doc[origin[i]].parent # 0
          /\ doc[doc[origin[i]].parent].tag \in BlockTags
          /\ doc[origin[i]].parent \notin gone

====
